---- MODULE Spec2Model ----
(***************************************************************************)
(* Model of the level/scene state machine of "Dona Neide: Manha do Caos":  *)
(* GameScene (scenes/game_scene.py, the scene main.py runs), the player    *)
(* DonaNeide, the boss EntregadorTemporal, the homing CaixaMissil and the  *)
(* falling Item.                                                           *)
(*                                                                         *)
(* Units.  Time is in milliseconds (run_game computes dt from the integer  *)
(* millisecond count of clock.tick), so 1.0 s of the source is 1000 here.  *)
(* Positions are integer pixels: a pygame Rect stores integers and a float *)
(* assigned to one of its coordinates is truncated toward zero.            *)
(* boost_multiplier and speed_multiplier are kept times ten (1.5 -> 15).   *)
(***************************************************************************)
EXTENDS Integers, Sequences, FiniteSets, TLC

VARIABLES
    level,             \* GameScene.level
    in_transition,     \* GameScene.in_transition
    transition_timer,  \* GameScene.transition_timer
    spawn_interval,    \* GameScene.spawn_interval   (set by load_level)
    max_items,         \* GameScene.max_items        (set by load_level)
    speed_multiplier,  \* GameScene.speed_multiplier (set by load_level), x10
    spawn_timer,       \* GameScene.spawn_timer
    items,             \* GameScene.items: the sprite group, in insertion order
    boss,              \* GameScene.boss: << >> is None, <<b>> a boss b
    missiles,          \* GameScene.missiles: << >> is None, <<pool>> a group
    player,            \* GameScene.player: the DonaNeide object
    next_scene,        \* GameScene.next_scene
    run,               \* run_game: its active_scene and how far it has got
    last               \* what the last step of the run did (observation only)

vars == <<level, in_transition, transition_timer, spawn_interval, max_items,
          speed_multiplier, spawn_timer, items, boss, missiles, player,
          next_scene, run, last>>

sceneVars == <<level, in_transition, transition_timer, spawn_interval,
               max_items, speed_multiplier, spawn_timer, items, missiles,
               next_scene, run>>

----------------------------------------------------------------------------
(* Arithmetic helpers *)

Abs(n) == IF n < 0 THEN -n ELSE n

\* int(n / d) as Python and pygame's Rect compute it: truncation toward zero.
TruncDiv(n, d) == IF n >= 0 THEN n \div d ELSE -((-n) \div d)

\* Python's floor division a // b for b > 0.
FloorDiv(a, b) == a \div b

----------------------------------------------------------------------------
(* Screen and sprite sizes *)

WIDTH == 800
HEIGHT == 600
PlayerW == 64
PlayerH == 64

----------------------------------------------------------------------------
(* entities/dona_neide.py *)

shield_duration == 1000
shield_cooldown == 5000
slip_duration == 500
player_speed == 200
boost_value == 15
boost_duration == 6000

\* DonaNeide.__init__: rect = get_rect(midbottom=(400, 580)) of a 64x64 image.
NewPlayer ==
    [x |-> 400 - PlayerW \div 2, y |-> 580 - PlayerH,
     shield_active |-> FALSE, shield_timer |-> 0, cooldown_timer |-> 0,
     slip_timer |-> 0, can_move |-> TRUE,
     vida |-> 3, pontos |-> 0,
     boost_timer |-> 0, boost_multiplier |-> 10]

\* A key state: space held or not, and the horizontal direction the
\* left/a, right/d keys give (left wins over right: if / elif).
KeyStates == [space : BOOLEAN, dx : {-1, 0, 1}]

\* The screen limits with the test of the right edge left out.
ClampX_LeftOnly(x) ==
    IF x < 0 THEN 0 ELSE x

\* The screen limits of process_input.
ClampX(x) ==
    LET x1 == IF x < 0 THEN 0 ELSE x
    IN  IF x1 + PlayerW > 800 THEN 800 - PlayerW ELSE x1

\* process_input with the cooldown test of the shield trigger left out.
PlayerProcessInput_NoCooldownTest(p, k, dt) ==
    IF p.slip_timer > 0 THEN p
    ELSE
      LET trigger == k.space /\ ~p.shield_active
          p1 == IF trigger
                THEN [p EXCEPT !.shield_active = TRUE, !.shield_timer = 0]
                ELSE p
          nx == TruncDiv(p1.x * 10000
                           + k.dx * player_speed * p1.boost_multiplier * dt,
                         10000)
      IN  [p1 EXCEPT !.x = ClampX(nx)]

\* process_input with the slip test guarding the movement only.
PlayerProcessInput_SlipBlocksMoveOnly(p, k, dt) ==
    LET trigger == k.space /\ ~p.shield_active /\ p.cooldown_timer <= 0
        p1 == IF trigger
              THEN [p EXCEPT !.shield_active = TRUE, !.shield_timer = 0]
              ELSE p
        nx == TruncDiv(p1.x * 10000
                         + k.dx * player_speed * p1.boost_multiplier * dt,
                       10000)
    IN  IF p.slip_timer > 0 THEN p1 ELSE [p1 EXCEPT !.x = ClampX(nx)]

\* DonaNeide.process_input, called from update with self.dt = dt.
PlayerProcessInput(p, k, dt) ==
    IF p.slip_timer > 0 THEN p
    ELSE
      LET trigger == k.space /\ ~p.shield_active /\ p.cooldown_timer <= 0
          p1 == IF trigger
                THEN [p EXCEPT !.shield_active = TRUE, !.shield_timer = 0]
                ELSE p
          \* rect.x += dx * speed * boost_multiplier * dt
          nx == TruncDiv(p1.x * 10000
                           + k.dx * player_speed * p1.boost_multiplier * dt,
                         10000)
      IN  [p1 EXCEPT !.x = ClampX(nx)]

\* DonaNeide.update(keys, dt)
PlayerUpdate(p, k, dt) ==
    LET \* slip countdown
        p1 == IF p.slip_timer > 0
              THEN IF p.slip_timer - dt <= 0
                   THEN [p EXCEPT !.slip_timer = 0, !.can_move = TRUE]
                   ELSE [p EXCEPT !.slip_timer = p.slip_timer - dt]
              ELSE p
        p2 == PlayerProcessInput(p1, k, dt)
        \* shield duration / cooldown
        p3 == IF p2.shield_active
              THEN IF p2.shield_timer + dt >= shield_duration
                   THEN [p2 EXCEPT !.shield_timer = p2.shield_timer + dt,
                                   !.shield_active = FALSE,
                                   !.cooldown_timer = shield_cooldown]
                   ELSE [p2 EXCEPT !.shield_timer = p2.shield_timer + dt]
              ELSE IF p2.cooldown_timer > 0
                   THEN IF p2.cooldown_timer - dt < 0
                        THEN [p2 EXCEPT !.cooldown_timer = 0]
                        ELSE [p2 EXCEPT !.cooldown_timer = p2.cooldown_timer - dt]
                   ELSE p2
        \* boost countdown: the timer itself is not clamped
    IN  IF p3.boost_timer > 0
        THEN IF p3.boost_timer - dt <= 0
             THEN [p3 EXCEPT !.boost_timer = p3.boost_timer - dt,
                             !.boost_multiplier = 10]
             ELSE [p3 EXCEPT !.boost_timer = p3.boost_timer - dt]
        ELSE p3

\* boost_speed adding the full duration to the time a running boost has left.
BoostSpeed_Stacking(p) ==
    [p EXCEPT !.boost_multiplier = boost_value,
              !.boost_timer = (IF p.boost_timer > 0 THEN p.boost_timer ELSE 0)
                                + boost_duration]

\* DonaNeide.boost_speed(multiplier=1.5, duration=6.0)
BoostSpeed(p) ==
    [p EXCEPT !.boost_multiplier = boost_value, !.boost_timer = boost_duration]

\* DonaNeide.escorregar()
Escorregar(p) ==
    [p EXCEPT !.slip_timer = slip_duration, !.can_move = FALSE]

----------------------------------------------------------------------------
(* entities/entregador_temporal.py *)

BossW == 100
BossH == 80
BossTop == 20
boss_speed == 100
max_hits == 20
missile_interval_start == 2000
missile_interval_fast == 1000

\* EntregadorTemporal.__init__: rect = get_rect(midtop=(screen centerx, 20)).
NewBoss ==
    [x |-> WIDTH \div 2 - BossW \div 2, direction |-> 1,
     missile_timer |-> 0, missile_interval |-> missile_interval_start,
     hits_taken |-> 0, dead |-> FALSE]

\* update with the boss stopped at the boundary it has crossed.
BossUpdate_ClampAtEdge(b, dt) ==
    LET mx == TruncDiv(b.x * 1000 + b.direction * boss_speed * dt, 1000)
        out == mx + BossW > WIDTH \/ mx < 0
        nx == IF mx + BossW > WIDTH THEN WIDTH - BossW
              ELSE IF mx < 0 THEN 0 ELSE mx
        nd == IF out THEN -b.direction ELSE b.direction
    IN  [b EXCEPT !.x = nx, !.direction = nd,
                  !.missile_timer = b.missile_timer + dt]

\* EntregadorTemporal.update(dt)
BossUpdate(b, dt) ==
    LET nx == TruncDiv(b.x * 1000 + b.direction * boss_speed * dt, 1000)
        nd == IF nx + BossW > WIDTH \/ nx < 0 THEN -b.direction
                                               ELSE b.direction
    IN  [b EXCEPT !.x = nx, !.direction = nd,
                  !.missile_timer = b.missile_timer + dt]

\* EntregadorTemporal.ready_to_fire()
ReadyToFire(b) == b.missile_timer >= b.missile_interval

\* register_hit with the death test written > instead of >=.
RegisterHit_StrictDeath(b) ==
    LET h == b.hits_taken + 1
    IN  IF h > max_hits
        THEN [b EXCEPT !.hits_taken = h, !.dead = TRUE]
        ELSE IF h = max_hits \div 2
             THEN [b EXCEPT !.hits_taken = h,
                            !.missile_interval = missile_interval_fast]
             ELSE [b EXCEPT !.hits_taken = h]

\* register_hit with the ramp at a quarter of max_hits instead of half.
RegisterHit_QuarterRamp(b) ==
    LET h == b.hits_taken + 1
    IN  IF h >= max_hits
        THEN [b EXCEPT !.hits_taken = h, !.dead = TRUE]
        ELSE IF h = max_hits \div 4
             THEN [b EXCEPT !.hits_taken = h,
                            !.missile_interval = missile_interval_fast]
             ELSE [b EXCEPT !.hits_taken = h]

\* EntregadorTemporal.register_hit()
RegisterHit(b) ==
    LET h == b.hits_taken + 1
    IN  IF h >= max_hits
        THEN [b EXCEPT !.hits_taken = h, !.dead = TRUE]
        ELSE IF h = FloorDiv(max_hits, 2)
             THEN [b EXCEPT !.hits_taken = h,
                            !.missile_interval = missile_interval_fast]
             ELSE [b EXCEPT !.hits_taken = h]

----------------------------------------------------------------------------
(* entities/CaixaMissil.py *)

MissileW == 40
MissileH == 40
missile_speed == 300

\* CaixaMissil.__init__(x, y, ...): rect = get_rect(midtop=(x, y)).
NewMissile(cx, top) == [x |-> cx - MissileW \div 2, y |-> top]

\* EntregadorTemporal.fire_missile(): the timer reset and the new missile,
\* created at (rect.centerx, rect.bottom) of the boss.
FireMissileBoss(b) == [b EXCEPT !.missile_timer = 0]
FireMissile(b) == NewMissile(b.x + BossW \div 2, BossTop + BossH)

RECURSIVE Gcd(_, _)
Gcd(a, b) == IF b = 0 THEN a ELSE Gcd(b, a % b)

\* a/b <= c/d for a, c >= 0 and b, d > 0, by comparing the continued
\* fractions (no product is formed, so nothing overflows).
RECURSIVE FracLeq(_, _, _, _)
FracLeq(a, b, c, d) ==
    LET qa == a \div b
        qc == c \div d
        ra == a % b
        rc == c % d
    IN  IF qa # qc THEN qa < qc
        ELSE IF ra = 0 THEN TRUE
        ELSE IF rc = 0 THEN FALSE
        ELSE FracLeq(d, rc, b, ra)

\* The largest k in lo..hi with (k*r)^2 * n <= m^2, that is
\* k <= m / (r * sqrt(n)); lo satisfies it.
RECURSIVE MaxStep(_, _, _, _, _)
MaxStep(lo, hi, m, r, n) ==
    IF lo >= hi THEN lo
    ELSE LET mid == (lo + hi + 1) \div 2
         IN  IF FracLeq((mid * r) * (mid * r), m, m, n)
             THEN MaxStep(mid, hi, m, r, n)
             ELSE MaxStep(lo, mid - 1, m, r, n)

\* int(c + (d / dist) * speed * dt) where dist = sqrt(n) > 0 and |d| <= dist:
\* the new integer coordinate of a Rect at c moved by the component d of the
\* normalised direction.  Computed exactly (real arithmetic, then the
\* truncation toward zero of the Rect assignment).
HomingCoord(c, d, n, dt) ==
    IF d = 0 THEN c
    ELSE
      LET q   == missile_speed * dt          \* thousandths of a pixel
          g   == Gcd(q, 1000)
          pp  == q \div g
          r   == 1000 \div g
          m   == Abs(d) * pp
          fm  == MaxStep(0, pp \div r, m, r, n)   \* floor of the magnitude
          exact == FracLeq(m, n, (fm * r) * (fm * r), m)
          cm  == IF exact THEN fm ELSE fm + 1     \* ceiling of the magnitude
          fv  == IF d > 0 THEN fm ELSE -cm        \* floor of the signed move
          cv  == IF d > 0 THEN cm ELSE -fm        \* ceiling of it
      IN  IF c + fv >= 0 THEN c + fv ELSE c + cv

\* CaixaMissil.update(dt) without the kill: the move toward the current
\* centre (tcx, tcy) of the target.
MissileMove(m, tcx, tcy, dt) ==
    LET dir_x == tcx - (m.x + MissileW \div 2)
        dir_y == tcy - (m.y + MissileH \div 2)
        n     == dir_x * dir_x + dir_y * dir_y
    IN  IF n = 0 THEN m
        ELSE [x |-> HomingCoord(m.x, dir_x, n, dt),
              y |-> HomingCoord(m.y, dir_y, n, dt)]

\* The kill condition of CaixaMissil.update.
MissileOffScreen(m) ==
    \/ m.y > 600
    \/ m.y + MissileH < 0
    \/ m.x > 800
    \/ m.x + MissileW < 0

----------------------------------------------------------------------------
(* entities/item.py *)

\* The size of each kind's image (item_definitions of GameScene).
ItemSize(tipo) ==
    CASE tipo = "meia"   -> [w |-> 100, h |-> 100]
      [] tipo = "cubo"   -> [w |-> 100, h |-> 100]
      [] tipo = "caneca" -> [w |-> 68,  h |-> 68]
      [] tipo = "banana" -> [w |-> 40,  h |-> 40]
      [] tipo = "toalha" -> [w |-> 38,  h |-> 38]
      [] OTHER           -> [w |-> 40,  h |-> 40]

\* Item.__init__: rect = get_rect(midtop=(r, -height)) with r the random
\* draw in 0..WIDTH - width; speed the random draw in speed_range.
NewItem(tipo, valor, efeito, speed, r) ==
    [tipo |-> tipo, valor |-> valor, efeito |-> efeito, speed |-> speed,
     x |-> r - ItemSize(tipo).w \div 2, y |-> -ItemSize(tipo).h]

\* Item.update(dt) without the kill: the fall.
ItemMove(it, dt) ==
    [it EXCEPT !.y = TruncDiv(it.y * 1000 + it.speed * dt, 1000)]

\* The kill condition of Item.update.
ItemOffScreen(it) == it.y > HEIGHT

----------------------------------------------------------------------------
(* scenes/game_scene.py: tables *)

max_level == 8
transition_duration == 2000
BossLevel == 4

\* GameScene.item_definitions / item_images: valor and efeito of each kind.
ItemKinds == {"meia", "cubo", "caneca", "banana", "toalha"}

item_images(tipo) ==
    CASE tipo = "meia"   -> [valor |-> 1,  efeito |-> "None"]
      [] tipo = "cubo"   -> [valor |-> 10, efeito |-> "None"]
      [] tipo = "caneca" -> [valor |-> 5,  efeito |-> "None"]
      [] tipo = "banana" -> [valor |-> -1, efeito |-> "escorregar"]
      [] tipo = "toalha" -> [valor |-> 0,  efeito |-> "boost"]

\* GameScene.points_to_next; 0 stands for the None of a missing key.
points_to_next(l) ==
    CASE l = 1 -> 10
      [] l = 2 -> 20
      [] l = 3 -> 25
      [] l = 4 -> 140
      [] l = 5 -> 200
      [] l = 6 -> 270
      [] l = 7 -> 350
      [] OTHER -> 0

\* level_configs with the row of level 1 as the fallback of a missing row.
level_configs_FirstRowDefault(l) ==
    CASE l = 2 -> [spawn_interval |-> 2500, max_items |-> 5, speed_multiplier |-> 12]
      [] l = 3 -> [spawn_interval |-> 2000, max_items |-> 6, speed_multiplier |-> 13]
      [] l = 4 -> [spawn_interval |-> 1500, max_items |-> 6, speed_multiplier |-> 14]
      [] l = 5 -> [spawn_interval |-> 1200, max_items |-> 7, speed_multiplier |-> 15]
      [] l = 6 -> [spawn_interval |-> 1000, max_items |-> 7, speed_multiplier |-> 16]
      [] l = 7 -> [spawn_interval |-> 800,  max_items |-> 8, speed_multiplier |-> 17]
      [] l = 8 -> [spawn_interval |-> 800,  max_items |-> 8, speed_multiplier |-> 18]
      [] OTHER -> [spawn_interval |-> 3000, max_items |-> 4, speed_multiplier |-> 10]

\* GameScene.level_configs with the defaults of load_level's cfg.get calls.
level_configs(l) ==
    CASE l = 1 -> [spawn_interval |-> 3000, max_items |-> 4, speed_multiplier |-> 10]
      [] l = 2 -> [spawn_interval |-> 2500, max_items |-> 5, speed_multiplier |-> 12]
      [] l = 3 -> [spawn_interval |-> 2000, max_items |-> 6, speed_multiplier |-> 13]
      [] l = 4 -> [spawn_interval |-> 1500, max_items |-> 6, speed_multiplier |-> 14]
      [] l = 5 -> [spawn_interval |-> 1200, max_items |-> 7, speed_multiplier |-> 15]
      [] l = 6 -> [spawn_interval |-> 1000, max_items |-> 7, speed_multiplier |-> 16]
      [] l = 7 -> [spawn_interval |-> 800,  max_items |-> 8, speed_multiplier |-> 17]
      [] l = 8 -> [spawn_interval |-> 800,  max_items |-> 8, speed_multiplier |-> 18]
      [] OTHER -> [spawn_interval |-> 2500, max_items |-> 5, speed_multiplier |-> 10]

\* The kinds the spawner draws from at a level (update, "tipos").
Tipos(l) ==
    IF l <= 1 THEN {"meia", "cubo", "caneca"}
    ELSE IF l = 2 THEN {"meia", "cubo", "caneca", "banana"}
    ELSE {"meia", "cubo", "caneca", "banana", "toalha"}

\* speed_range = (int(150 * mult), int(250 * mult)), mult kept times ten.
SpeedLo(mult) == (150 * mult) \div 10
SpeedHi(mult) == (250 * mult) \div 10

----------------------------------------------------------------------------
(* scenes/game_scene.py: collisions *)

\* pygame's Rect.colliderect for rectangles of positive size.
RectsCollide(ax, ay, aw, ah, bx, by, bw, bh) ==
    /\ ax < bx + bw
    /\ ax + aw > bx
    /\ ay < by + bh
    /\ ay + ah > by

ItemHitsPlayer(p, it) ==
    RectsCollide(p.x, p.y, PlayerW, PlayerH,
                 it.x, it.y, ItemSize(it.tipo).w, ItemSize(it.tipo).h)

MissileHitsPlayer(p, m) ==
    RectsCollide(p.x, p.y, PlayerW, PlayerH, m.x, m.y, MissileW, MissileH)

\* self.items.update(dt) with the kill test on the bottom edge of the item.
ItemsUpdate_KillAtBottomEdge(its, dt) ==
    LET moved == [i \in 1..Len(its) |-> ItemMove(its[i], dt)]
        Alive(it) == it.y + ItemSize(it.tipo).h <= HEIGHT
    IN  SelectSeq(moved, Alive)

\* self.items.update(dt): every item falls; the ones past the bottom are
\* killed (removed from the group).
ItemsUpdate(its, dt) ==
    LET moved == [i \in 1..Len(its) |-> ItemMove(its[i], dt)]
        Alive(it) == ~ItemOffScreen(it)
    IN  SelectSeq(moved, Alive)

\* self.missiles.update(dt) with the player p as the target.
MissilesUpdate(ms, p, dt) ==
    LET moved == [i \in 1..Len(ms) |->
                    MissileMove(ms[i], p.x + PlayerW \div 2,
                                p.y + PlayerH \div 2, dt)]
        Alive(m) == ~MissileOffScreen(m)
    IN  SelectSeq(moved, Alive)

\* The loop body with the shield test of the damage branch left out.
ApplyItem_IgnoreShield(p, it) ==
    IF it.efeito = "escorregar" THEN Escorregar(p)
    ELSE IF it.efeito = "boost" THEN BoostSpeed(p)
    ELSE IF it.valor > 0 THEN [p EXCEPT !.pontos = p.pontos + it.valor]
    ELSE [p EXCEPT !.vida = p.vida - Abs(it.valor)]

\* The loop body with the slip applied only when the shield is not active.
ApplyItem_ShieldAbsorbsSlip(p, it) ==
    IF it.efeito = "escorregar"
    THEN (IF p.shield_active THEN p ELSE Escorregar(p))
    ELSE IF it.efeito = "boost" THEN BoostSpeed(p)
    ELSE IF it.valor > 0 THEN [p EXCEPT !.pontos = p.pontos + it.valor]
    ELSE IF ~p.shield_active THEN [p EXCEPT !.vida = p.vida - Abs(it.valor)]
    ELSE p

\* The effect of one collected item on the player (the body of the loop
\* over hits in update).
ApplyItem(p, it) ==
    IF it.efeito = "escorregar" THEN Escorregar(p)
    ELSE IF it.efeito = "boost" THEN BoostSpeed(p)
    ELSE IF it.valor > 0 THEN [p EXCEPT !.pontos = p.pontos + it.valor]
    ELSE IF ~p.shield_active THEN [p EXCEPT !.vida = p.vida - Abs(it.valor)]
    ELSE p

RECURSIVE ApplyItems(_, _)
ApplyItems(p, hits) ==
    IF hits = << >> THEN p
    ELSE ApplyItems(ApplyItem(p, Head(hits)), Tail(hits))

----------------------------------------------------------------------------
(* scenes/game_scene.py: the controller *)

\* The level the boss's death leads to, one too high: the level after the
\* level after the boss's.
AfterBossLevel_SkipsOne == BossLevel + 2

AfterBossLevel == 5

\* The controller's fields as one record, for the operators below.
Scene ==
    [level |-> level, in_transition |-> in_transition,
     transition_timer |-> transition_timer,
     spawn_interval |-> spawn_interval, max_items |-> max_items,
     speed_multiplier |-> speed_multiplier, spawn_timer |-> spawn_timer,
     items |-> items, boss |-> boss, missiles |-> missiles,
     player |-> player, next_scene |-> next_scene]

\* What a step did, for the properties: the operation, its dt, whether the
\* spawner emitted an item, the shield flag at the collision step, the items
\* collected, the number of projectiles overlapping the player at the
\* collision step, how many of them were consumed, and the number of calls
\* of start_level_transition.  The last fields are filled in by the
\* direct calls of the player's methods only: the keys passed to the update,
\* and the time the updates have accumulated since the last escorregar()
\* (-1 before the first one, and not counted beyond slip_duration); and by
\* the direct call of boost_speed, the boost_timer it found.  screen is
\* what a render call drew; emptied is the number of items the load_level
\* of a level change found in the pool.
NoObs(op, dt) ==
    [op |-> op, dt |-> dt, spawned |-> FALSE, shield |-> FALSE,
     taken |-> << >>, overlap |-> 0, consumed |-> 0, transitions |-> 0,
     keys |-> [space |-> FALSE, dx |-> 0], since_slip |-> -1,
     boost_before |-> 0, screen |-> << >>, emptied |-> 0]

\* load_level without the else branch: outside the boss level the boss and
\* the projectile pool are left as they were.
LoadLevel_KeepsBoss(s, level_num) ==
    LET cfg == level_configs(level_num)
    IN  [s EXCEPT !.spawn_interval = cfg.spawn_interval,
                  !.max_items = cfg.max_items,
                  !.speed_multiplier = cfg.speed_multiplier,
                  !.spawn_timer = 0,
                  !.items = << >>,
                  !.boss = IF level_num = BossLevel THEN <<NewBoss>> ELSE s.boss,
                  !.missiles = IF level_num = BossLevel THEN << << >> >>
                                                        ELSE s.missiles]

\* GameScene.load_level(level_num)
LoadLevel(s, level_num) ==
    LET cfg == level_configs(level_num)
    IN  [s EXCEPT !.spawn_interval = cfg.spawn_interval,
                  !.max_items = cfg.max_items,
                  !.speed_multiplier = cfg.speed_multiplier,
                  !.spawn_timer = 0,
                  !.items = << >>,
                  !.boss = IF level_num = BossLevel THEN <<NewBoss>> ELSE << >>,
                  !.missiles = IF level_num = BossLevel THEN << << >> >>
                                                        ELSE << >>]

\* start_level_transition building a new player that keeps only the life
\* and the score of the old one.
StartLevelTransition_FreshPlayer(s, new_level) ==
    LET s1 == LoadLevel([s EXCEPT !.level = new_level], new_level)
    IN  [s1 EXCEPT !.in_transition = TRUE,
                   !.transition_timer = 0,
                   !.player = [NewPlayer EXCEPT
                                 !.vida = s.player.vida,
                                 !.pontos = s.player.pontos,
                                 !.x = WIDTH \div 2 - PlayerW \div 2,
                                 !.y = (HEIGHT - 10) - PlayerH]]

\* GameScene.start_level_transition(new_level)
StartLevelTransition(s, new_level) ==
    LET s1 == LoadLevel([s EXCEPT !.level = new_level], new_level)
    IN  [s1 EXCEPT !.in_transition = TRUE,
                   !.transition_timer = 0,
                   !.player.x = WIDTH \div 2 - PlayerW \div 2,
                   !.player.y = (HEIGHT - 10) - PlayerH]

\* The transition branch with the expiry compared with > instead of >=.
UpdateTransition_StrictExpiry(s, dt) ==
    LET t == s.transition_timer + dt
    IN  [s   |-> [s EXCEPT !.transition_timer = t,
                           !.in_transition = ~(t > transition_duration)],
         obs |-> NoObs("transition", dt)]

\* update, lines 134-138: the transition branch.
UpdateTransition(s, dt) ==
    LET t == s.transition_timer + dt
    IN  [s   |-> [s EXCEPT !.transition_timer = t,
                           !.in_transition = ~(t >= transition_duration)],
         obs |-> NoObs("transition", dt)]

\* The boss branch with the death test made on the boss as it was before
\* the hit of this tick was registered.
UpdateBoss_DeathTestBeforeHit(s, dt) ==
    LET b1   == BossUpdate(s.boss[1], dt)
        ms1  == MissilesUpdate(s.missiles[1], s.player, dt)
        fire == ReadyToFire(b1)
        b2   == IF fire THEN FireMissileBoss(b1) ELSE b1
        ms2  == IF fire THEN Append(ms1, FireMissile(b1)) ELSE ms1
        Hit(m)  == MissileHitsPlayer(s.player, m)
        Miss(m) == ~MissileHitsPlayer(s.player, m)
        hits == SelectSeq(ms2, Hit)
        sh   == s.player.shield_active
        ms3  == IF sh THEN SelectSeq(ms2, Miss) ELSE ms2
        b3   == IF sh /\ hits # << >> THEN RegisterHit(b2) ELSE b2
        s1   == [s EXCEPT !.boss = <<b3>>, !.missiles = <<ms3>>]
        go   == sh /\ hits # << >> /\ b2.dead
    IN  [s   |-> IF go THEN StartLevelTransition(s1, AfterBossLevel) ELSE s1,
         obs |-> [NoObs("boss", dt) EXCEPT
                    !.shield = sh, !.overlap = Len(hits),
                    !.consumed = Len(ms2) - Len(ms3),
                    !.transitions = IF go THEN 1 ELSE 0]]

\* The boss branch with the fire step before the updates of the boss and of
\* the projectiles.
UpdateBoss_FireBeforeUpdates(s, dt) ==
    LET fire == ReadyToFire(s.boss[1])
        b0   == IF fire THEN FireMissileBoss(s.boss[1]) ELSE s.boss[1]
        ms0  == IF fire THEN Append(s.missiles[1], FireMissile(s.boss[1]))
                        ELSE s.missiles[1]
        b2   == BossUpdate(b0, dt)
        ms2  == MissilesUpdate(ms0, s.player, dt)
        Hit(m)  == MissileHitsPlayer(s.player, m)
        Miss(m) == ~MissileHitsPlayer(s.player, m)
        hits == SelectSeq(ms2, Hit)
        sh   == s.player.shield_active
        ms3  == IF sh THEN SelectSeq(ms2, Miss) ELSE ms2
        b3   == IF sh /\ hits # << >> THEN RegisterHit(b2) ELSE b2
        s1   == [s EXCEPT !.boss = <<b3>>, !.missiles = <<ms3>>]
        go   == sh /\ hits # << >> /\ b3.dead
    IN  [s   |-> IF go THEN StartLevelTransition(s1, AfterBossLevel) ELSE s1,
         obs |-> [NoObs("boss", dt) EXCEPT
                    !.shield = sh, !.overlap = Len(hits),
                    !.consumed = Len(ms2) - Len(ms3),
                    !.transitions = IF go THEN 1 ELSE 0]]

\* update, lines 145-159: the boss branch; s already holds the updated
\* player and items.
UpdateBoss(s, dt) ==
    LET b1   == BossUpdate(s.boss[1], dt)
        ms1  == MissilesUpdate(s.missiles[1], s.player, dt)
        fire == ReadyToFire(b1)
        b2   == IF fire THEN FireMissileBoss(b1) ELSE b1
        ms2  == IF fire THEN Append(ms1, FireMissile(b1)) ELSE ms1
        Hit(m)  == MissileHitsPlayer(s.player, m)
        Miss(m) == ~MissileHitsPlayer(s.player, m)
        hits == SelectSeq(ms2, Hit)
        sh   == s.player.shield_active
        ms3  == IF sh THEN SelectSeq(ms2, Miss) ELSE ms2
        b3   == IF sh /\ hits # << >> THEN RegisterHit(b2) ELSE b2
        s1   == [s EXCEPT !.boss = <<b3>>, !.missiles = <<ms3>>]
        go   == sh /\ hits # << >> /\ b3.dead
    IN  [s   |-> IF go THEN StartLevelTransition(s1, AfterBossLevel) ELSE s1,
         obs |-> [NoObs("boss", dt) EXCEPT
                    !.shield = sh, !.overlap = Len(hits),
                    !.consumed = Len(ms2) - Len(ms3),
                    !.transitions = IF go THEN 1 ELSE 0]]

\* The play branch with the population test of the spawner left out.
UpdatePlay_NoCap(s, dt, newItem) ==
    LET t     == s.spawn_timer + dt
        spawn == t >= s.spawn_interval
        its1  == IF spawn THEN Append(s.items, newItem) ELSE s.items
        Hit(it)  == ItemHitsPlayer(s.player, it)
        Miss(it) == ~ItemHitsPlayer(s.player, it)
        hits  == SelectSeq(its1, Hit)
        p1    == ApplyItems(s.player, hits)
        s1    == [s EXCEPT !.spawn_timer = IF spawn THEN 0 ELSE t,
                           !.items = SelectSeq(its1, Miss),
                           !.player = p1]
        need  == points_to_next(s.level)
        go    == s.level < max_level /\ need # 0 /\ p1.pontos >= need
    IN  [s   |-> IF go THEN StartLevelTransition(s1, s.level + 1) ELSE s1,
         obs |-> [NoObs("play", dt) EXCEPT
                    !.spawned = spawn, !.shield = s.player.shield_active,
                    !.taken = hits,
                    !.transitions = IF go THEN 1 ELSE 0]]

\* The play branch with the level threshold compared with > instead of >=.
UpdatePlay_StrictThreshold(s, dt, newItem) ==
    LET t     == s.spawn_timer + dt
        spawn == t >= s.spawn_interval /\ Len(s.items) < s.max_items
        its1  == IF spawn THEN Append(s.items, newItem) ELSE s.items
        Hit(it)  == ItemHitsPlayer(s.player, it)
        Miss(it) == ~ItemHitsPlayer(s.player, it)
        hits  == SelectSeq(its1, Hit)
        p1    == ApplyItems(s.player, hits)
        s1    == [s EXCEPT !.spawn_timer = IF spawn THEN 0 ELSE t,
                           !.items = SelectSeq(its1, Miss),
                           !.player = p1]
        need  == points_to_next(s.level)
        go    == s.level < max_level /\ need # 0 /\ p1.pontos > need
    IN  [s   |-> IF go THEN StartLevelTransition(s1, s.level + 1) ELSE s1,
         obs |-> [NoObs("play", dt) EXCEPT
                    !.spawned = spawn, !.shield = s.player.shield_active,
                    !.taken = hits,
                    !.transitions = IF go THEN 1 ELSE 0]]

\* The play branch with a spawner that keeps the time beyond the interval.
UpdatePlay_TimerKeepsRemainder(s, dt, newItem) ==
    LET t     == s.spawn_timer + dt
        spawn == t >= s.spawn_interval /\ Len(s.items) < s.max_items
        its1  == IF spawn THEN Append(s.items, newItem) ELSE s.items
        Hit(it)  == ItemHitsPlayer(s.player, it)
        Miss(it) == ~ItemHitsPlayer(s.player, it)
        hits  == SelectSeq(its1, Hit)
        p1    == ApplyItems(s.player, hits)
        s1    == [s EXCEPT !.spawn_timer = IF spawn THEN t - s.spawn_interval ELSE t,
                           !.items = SelectSeq(its1, Miss),
                           !.player = p1]
        need  == points_to_next(s.level)
        go    == s.level < max_level /\ need # 0 /\ p1.pontos >= need
    IN  [s   |-> IF go THEN StartLevelTransition(s1, s.level + 1) ELSE s1,
         obs |-> [NoObs("play", dt) EXCEPT
                    !.spawned = spawn, !.shield = s.player.shield_active,
                    !.taken = hits,
                    !.transitions = IF go THEN 1 ELSE 0]]

\* The play branch with the level check before the spawner: the spawner
\* runs after a transition has been started.
UpdatePlay_AdvanceBeforeSpawn(s, dt, newItem) ==
    LET Hit(it)  == ItemHitsPlayer(s.player, it)
        Miss(it) == ~ItemHitsPlayer(s.player, it)
        hits  == SelectSeq(s.items, Hit)
        p1    == ApplyItems(s.player, hits)
        s1    == [s EXCEPT !.items = SelectSeq(s.items, Miss), !.player = p1]
        need  == points_to_next(s.level)
        go    == s.level < max_level /\ need # 0 /\ p1.pontos >= need
        s2    == IF go THEN StartLevelTransition(s1, s.level + 1) ELSE s1
        t     == s2.spawn_timer + dt
        spawn == t >= s2.spawn_interval /\ Len(s2.items) < s2.max_items
    IN  [s   |-> [s2 EXCEPT !.spawn_timer = IF spawn THEN 0 ELSE t,
                            !.items = IF spawn THEN Append(s2.items, newItem)
                                               ELSE s2.items],
         obs |-> [NoObs("play", dt) EXCEPT
                    !.spawned = spawn, !.shield = s.player.shield_active,
                    !.taken = hits,
                    !.transitions = IF go THEN 1 ELSE 0]]

\* The play branch with a collision test that leaves the collected items in
\* the pool (spritecollide with dokill False).
UpdatePlay_CollideKeepsItems(s, dt, newItem) ==
    LET t     == s.spawn_timer + dt
        spawn == t >= s.spawn_interval /\ Len(s.items) < s.max_items
        its1  == IF spawn THEN Append(s.items, newItem) ELSE s.items
        Hit(it)  == ItemHitsPlayer(s.player, it)
        hits  == SelectSeq(its1, Hit)
        p1    == ApplyItems(s.player, hits)
        s1    == [s EXCEPT !.spawn_timer = IF spawn THEN 0 ELSE t,
                           !.items = its1,
                           !.player = p1]
        need  == points_to_next(s.level)
        go    == s.level < max_level /\ need # 0 /\ p1.pontos >= need
    IN  [s   |-> IF go THEN StartLevelTransition(s1, s.level + 1) ELSE s1,
         obs |-> [NoObs("play", dt) EXCEPT
                    !.spawned = spawn, !.shield = s.player.shield_active,
                    !.taken = hits,
                    !.transitions = IF go THEN 1 ELSE 0]]

\* update, lines 161-191: spawner, item collisions, level advance; s already
\* holds the updated player and items, newItem is the item the random draws
\* of this tick would create.
UpdatePlay(s, dt, newItem) ==
    LET t     == s.spawn_timer + dt
        spawn == t >= s.spawn_interval /\ Len(s.items) < s.max_items
        its1  == IF spawn THEN Append(s.items, newItem) ELSE s.items
        Hit(it)  == ItemHitsPlayer(s.player, it)
        Miss(it) == ~ItemHitsPlayer(s.player, it)
        hits  == SelectSeq(its1, Hit)
        p1    == ApplyItems(s.player, hits)
        s1    == [s EXCEPT !.spawn_timer = IF spawn THEN 0 ELSE t,
                           !.items = SelectSeq(its1, Miss),
                           !.player = p1]
        need  == points_to_next(s.level)
        go    == s.level < max_level /\ need # 0 /\ p1.pontos >= need
    IN  [s   |-> IF go THEN StartLevelTransition(s1, s.level + 1) ELSE s1,
         obs |-> [NoObs("play", dt) EXCEPT
                    !.spawned = spawn, !.shield = s.player.shield_active,
                    !.taken = hits,
                    !.emptied = IF go THEN Len(s1.items) ELSE 0,
                    !.transitions = IF go THEN 1 ELSE 0]]

\* update with the player and the items updated before the transition test.
Update_PlayerUpdatedInTransition(s, k, dt, newItem) ==
    LET s1 == [s EXCEPT !.player = PlayerUpdate(s.player, k, dt),
                        !.items = ItemsUpdate(s.items, dt)]
    IN  IF s.in_transition THEN UpdateTransition(s1, dt)
        ELSE IF s1.level = BossLevel /\ s1.boss # << >> /\ ~s1.boss[1].dead
             THEN UpdateBoss(s1, dt)
             ELSE UpdatePlay(s1, dt, newItem)

\* update with a boss branch that does not return: the spawner and the item
\* collisions run in the boss ticks too.
Update_BossBranchFallsThrough(s, k, dt, newItem) ==
    IF s.in_transition THEN UpdateTransition(s, dt)
    ELSE
      LET s1 == [s EXCEPT !.player = PlayerUpdate(s.player, k, dt),
                          !.items = ItemsUpdate(s.items, dt)]
      IN  IF s1.level = BossLevel /\ s1.boss # << >> /\ ~s1.boss[1].dead
          THEN LET r  == UpdateBoss(s1, dt)
                   r2 == UpdatePlay(r.s, dt, newItem)
               IN  [s |-> r2.s, obs |-> [r.obs EXCEPT !.spawned = r2.obs.spawned]]
          ELSE UpdatePlay(s1, dt, newItem)

\* GameScene.update(dt) with self.keys = k.
Update(s, k, dt, newItem) ==
    IF s.in_transition THEN UpdateTransition(s, dt)
    ELSE
      LET s1 == [s EXCEPT !.player = PlayerUpdate(s.player, k, dt),
                          !.items = ItemsUpdate(s.items, dt)]
      IN  IF s1.level = BossLevel /\ s1.boss # << >> /\ ~s1.boss[1].dead
          THEN UpdateBoss(s1, dt)
          ELSE UpdatePlay(s1, dt, newItem)

\* render with a HUD that counts the hearts down on the player's own life.
Render_HudConsumesVida(s) ==
    [s   |-> IF s.in_transition THEN s
             ELSE [s EXCEPT !.player.vida = 0],
     obs |-> [NoObs("render", 0) EXCEPT
                !.screen = IF s.in_transition THEN <<[card |-> s.level]>>
                           ELSE <<[pontos |-> s.player.pontos,
                                   hearts |-> s.player.vida,
                                   shield_available |->
                                       s.player.cooldown_timer <= 0]>>]]

\* GameScene.render(screen) with draw_hud: the scene is left as it is, and
\* what is drawn is the level card during a transition and otherwise the
\* sprites and the HUD, to which render passes the score, the life (one
\* heart per life, range(vida)) and shield_ready = (cooldown_timer <= 0).
Render(s) ==
    [s   |-> s,
     obs |-> [NoObs("render", 0) EXCEPT
                !.screen = IF s.in_transition THEN <<[card |-> s.level]>>
                           ELSE <<[pontos |-> s.player.pontos,
                                   hearts |-> IF s.player.vida > 0
                                              THEN s.player.vida ELSE 0,
                                   shield_available |->
                                       s.player.cooldown_timer <= 0]>>]]

\* GameScene.__init__(level)
NewScene(l) ==
    LET s0 == [level |-> l, in_transition |-> TRUE, transition_timer |-> 0,
               spawn_interval |-> 0, max_items |-> 0, speed_multiplier |-> 0,
               spawn_timer |-> 0, items |-> << >>, boss |-> << >>,
               missiles |-> << >>, player |-> NewPlayer, next_scene |-> "self"]
    IN  LoadLevel(s0, l)

\* run_game after `active_scene = starting_scene_factory()`: the scene is
\* the active one and the loop is running.  status becomes "AttributeError"
\* when a call on a None active_scene raises out of run_game, and "quit" when
\* pygame.quit() has been reached.
NewRun == [active_scene |-> "scene", status |-> "looping"]

\* The state becomes the record s, with the observation o.
Becomes(s, o) ==
    /\ level' = s.level
    /\ in_transition' = s.in_transition
    /\ transition_timer' = s.transition_timer
    /\ spawn_interval' = s.spawn_interval
    /\ max_items' = s.max_items
    /\ speed_multiplier' = s.speed_multiplier
    /\ spawn_timer' = s.spawn_timer
    /\ items' = s.items
    /\ boss' = s.boss
    /\ missiles' = s.missiles
    /\ player' = s.player
    /\ next_scene' = s.next_scene
    /\ run' = run
    /\ last' = o

----------------------------------------------------------------------------
(* The game session: run_game driving GameScene *)

\* Bounds of the exploration.
MaxScore == 24        \* no tick is explored once the score exceeds this
MaxMissiles == 3      \* nor once more projectiles than this are in the pool

\* The levels the scene is constructed at (main.py uses 1).
StartLevels == {1, BossLevel}

\* The frame times fed to update, in milliseconds.
DTs == {500}

\* The key states fed to process_input.
Idle == [space |-> FALSE, dx |-> 0]
Keys == {Idle, [space |-> TRUE, dx |-> 0]}

\* The random draws of the spawner: random.choice(tipos), the
\* random.randint of the speed range (its upper end) and the random.randint
\* of the horizontal position (over the player's start column, or left of it).
SpeedDraws(mult) == {SpeedHi(mult)}
XDraws == {400, 100}

\* update, lines 165-171: the item the spawner creates from its draws.
SpawnedItems(l, mult) ==
    {NewItem(t, item_images(t).valor, item_images(t).efeito, sp, r) :
        t \in Tipos(l), sp \in SpeedDraws(mult), r \in XDraws}

\* Items of the whole domain of Item(image, tipo, valor, efeito=None, ...):
\* besides the rows of item_definitions, kinds with no effect tag and a zero
\* or negative valor, which the last branch of the collision loop handles.
\* No row of item_definitions is of this shape; these items exercise that
\* branch as a caller adding such an Item to scene.items would.
AnyItems(l, mult) ==
    SpawnedItems(l, mult) \cup
    {NewItem("dano", v, "None", sp, 400) :
        v \in {-2, -1, 0}, sp \in SpeedDraws(mult)}

\* The projectile pool as a sequence (empty when there is none).
MissilePool == IF missiles = << >> THEN << >> ELSE missiles[1]

InBounds ==
    /\ player.pontos <= MaxScore
    /\ Len(MissilePool) <= MaxMissiles

Init ==
    \E l \in StartLevels :
        LET s == NewScene(l)
        IN  /\ level = s.level
            /\ in_transition = s.in_transition
            /\ transition_timer = s.transition_timer
            /\ spawn_interval = s.spawn_interval
            /\ max_items = s.max_items
            /\ speed_multiplier = s.speed_multiplier
            /\ spawn_timer = s.spawn_timer
            /\ items = s.items
            /\ boss = s.boss
            /\ missiles = s.missiles
            /\ player = s.player
            /\ next_scene = s.next_scene
            /\ run = NewRun
            /\ last = NoObs("init", 0)

\* A placeholder for the item of a tick in which the spawner creates none.
NoItem == NewItem("meia", 1, "None", 0, 0)

\* One iteration of run_game's loop on the scene, with the keys drawn from
\* K, the frame time from D and the spawner's item from G(level, multiplier):
\* process_input stores the keys, update(dt) runs; render reads the state
\* only.  The random draws are made only in a tick whose spawn condition
\* holds.
Step(K, D, G(_, _)) ==
    /\ run.active_scene = "scene"
    /\ next_scene = "self"
    /\ \E k \in K, dt \in D :
          \E r0 \in {Update(Scene, k, dt, NoItem)} :
              IF r0.obs.spawned
              THEN \E it \in G(level, speed_multiplier) :
                      \E r \in {Update(Scene, k, dt, it)} :
                          Becomes(r.s, r.obs)
              ELSE Becomes(r0.s, r0.obs)

Tick ==
    /\ InBounds
    /\ Step(Keys, DTs, SpawnedItems)

Next == Tick

Spec == Init /\ [][Next]_vars

\* The same session with the spawned items drawn from the whole Item domain.
MaxLifeLost == 4      \* no tick is explored once more lives than this are lost

InitAnyItem ==
    /\ Init
    /\ level = 1

TickAnyItem ==
    /\ InBounds
    /\ NewPlayer.vida - player.vida <= MaxLifeLost
    /\ Step(Keys, DTs, AnyItems)

NextAnyItem == TickAnyItem

SpecAnyItem == InitAnyItem /\ [][NextAnyItem]_vars

\* The same session at a frame time so short that the slowest items do not
\* advance (150 px/s * 6 ms truncates to 0 px), which is how the item pool
\* fills up to max_items.
SlowDTs == {6}
MaxSpawnTimer == 3100  \* no tick is explored once spawn_timer exceeds this

\* The spawner's draws with the lower end of the speed range, left of the
\* player.
SlowItems(l, mult) ==
    {NewItem(t, item_images(t).valor, item_images(t).efeito, SpeedLo(mult), 100) :
        t \in Tipos(l)}

InitSlow ==
    /\ Init
    /\ level = 1

TickSlow ==
    /\ InBounds
    /\ spawn_timer <= MaxSpawnTimer
    /\ Step({Idle}, SlowDTs, SlowItems)

NextSlow == TickSlow

SpecSlow == InitSlow /\ [][NextSlow]_vars

\* The spawner at short and at very long frame times: the session of
\* SpecSlow with, besides its short frame, a frame longer than two spawn
\* intervals (a stalled window) at any tick of the play.
StallDT == 7000

SpawnDTs == IF in_transition THEN SlowDTs ELSE SlowDTs \cup {StallDT}

TickSpawn ==
    /\ InBounds
    /\ spawn_timer <= MaxSpawnTimer
    /\ Step({Idle}, SpawnDTs, SlowItems)

NextSpawn == TickSpawn

SpecSpawn == InitSlow /\ [][NextSpawn]_vars

\* The boss fight: the session constructed at the boss level and followed
\* until the controller leaves that level.  The homing projectiles overshoot
\* the player at this frame time and stay in the pool until a shield blocks
\* them, so the pool grows larger here than in the other sessions.
MaxFightMissiles == 7   \* no tick is explored once the pool exceeds this

InitBossFight ==
    /\ Init
    /\ level = BossLevel

TickBossFight ==
    /\ level = BossLevel
    /\ Len(MissilePool) <= MaxFightMissiles
    /\ Step(Keys, DTs, SpawnedItems)

NextBossFight == TickBossFight

SpecBossFight == InitBossFight /\ [][NextBossFight]_vars

----------------------------------------------------------------------------
\* The whole campaign: the levels before the boss played by a player who
\* stands still under a spawner that draws the kind worth 10 points, the
\* boss fight followed to the boss's death, and the transition into the
\* level after it.
CampaignItems(l, mult) ==
    {it \in SpawnedItems(l, mult) : it.tipo = "cubo"}

\* One tick of the campaign: before the boss level a standing player and
\* the spawner above; in the boss level the ticks of the boss fight; after
\* it the ticks of the transition the boss's death started.
CampaignKeys == IF level < BossLevel THEN {Idle} ELSE Keys

TickCampaign ==
    /\ IF level < BossLevel THEN InBounds
       ELSE IF level = BossLevel THEN Len(MissilePool) <= MaxFightMissiles
       ELSE level = AfterBossLevel /\ in_transition
    /\ Step(CampaignKeys, DTs, CampaignItems)

NextCampaign == TickCampaign

SpecCampaign == Init /\ [][NextCampaign]_vars

(* The entry into a level: the scene from its construction to the first     *)
(* tick after its opening transition                                        *)

\* The level argument of GameScene(level): the configured levels and one on
\* each side of them, which have no row in level_configs.
EntryLevels == 0 .. (max_level + 1)

\* Frame times: one whose multiples reach transition_duration exactly and
\* one whose multiples overshoot it.
EntryDTs == {250, 700}

\* The state is the record s, with the observation o.
Is(s, o) ==
    /\ level = s.level
    /\ in_transition = s.in_transition
    /\ transition_timer = s.transition_timer
    /\ spawn_interval = s.spawn_interval
    /\ max_items = s.max_items
    /\ speed_multiplier = s.speed_multiplier
    /\ spawn_timer = s.spawn_timer
    /\ items = s.items
    /\ boss = s.boss
    /\ missiles = s.missiles
    /\ player = s.player
    /\ next_scene = s.next_scene
    /\ run = NewRun
    /\ last = o

InitEntry ==
    \E l \in EntryLevels : Is(NewScene(l), NoObs("init", 0))

TickEntry ==
    /\ last.op \in {"init", "transition"}
    /\ Step(Keys, EntryDTs, SpawnedItems)

NextEntry == TickEntry

\* run_game calls update in every iteration of its loop: the ticks keep
\* arriving while the scene is the active one.
SpecEntry == InitEntry /\ [][NextEntry]_vars /\ WF_vars(NextEntry)

----------------------------------------------------------------------------

(* The last level: the scene constructed at max_level and played on         *)

\* The score at which the other scene file, novogame_scene.py, declares
\* victory in the last level: twice the threshold of the level before it.
\* game_scene.py has no threshold for max_level (points_to_next ends at
\* max_level - 1).
FinalThreshold == 2 * points_to_next(max_level - 1)

MaxFinalScore == 700  \* no tick is explored once the score exceeds this

\* The spawner's draws in the last level, kept to the most valuable kind.
FinalItems(l, mult) ==
    {NewItem("cubo", item_images("cubo").valor, item_images("cubo").efeito,
             sp, r) : sp \in SpeedDraws(mult), r \in XDraws}

InitFinal ==
    Is(NewScene(max_level), NoObs("init", 0))

TickFinal ==
    /\ player.pontos <= MaxFinalScore
    /\ Step({Idle}, DTs, FinalItems)

NextFinal == TickFinal

SpecFinal == InitFinal /\ [][NextFinal]_vars

----------------------------------------------------------------------------

\* The levels in sequence: a scene constructed at any level of the game and
\* played to the last level.  Outside the boss level the player stands still
\* under a spawner that draws the most valuable kind; the boss fight is
\* played as in SpecBossFight.
MaxLevelsScore == 360   \* no play tick is explored once the score exceeds this

InitLevels ==
    \E l \in 1 .. max_level : Is(NewScene(l), NoObs("init", 0))

LevelsKeys == IF level = BossLevel THEN Keys ELSE {Idle}

TickLevels ==
    /\ IF level = BossLevel THEN Len(MissilePool) <= MaxFightMissiles
                            ELSE player.pontos <= MaxLevelsScore
    /\ Step(LevelsKeys, DTs, FinalItems)

NextLevels == TickLevels

SpecLevels == InitLevels /\ [][NextLevels]_vars

\* The levels before the boss with the score carried from one to the next:
\* the session of Spec with a standing player, followed up to a higher
\* score.
MaxCarriedScore == 40   \* no tick is explored once the score exceeds this

InitCarried ==
    /\ Init
    /\ level = 1

TickCarried ==
    /\ level < BossLevel
    /\ player.pontos <= MaxCarriedScore
    /\ Step({Idle}, DTs, SpawnedItems)

NextCarried == TickCarried

SpecCarried == InitCarried /\ [][NextCarried]_vars

(* The driver loop with the window's close button: run_game receiving a     *)
(* QUIT event                                                               *)

\* An iteration of run_game's loop whose events hold a QUIT event: the
\* for loop over the events assigns active_scene = None, and the statement
\* after it, active_scene.process_input(events, keys), is then a call on
\* None, which raises AttributeError out of run_game; update, render and the
\* pygame.quit() after the loop are not reached.
QuitIteration ==
    /\ run.active_scene = "scene"
    /\ run' = [active_scene |-> "None", status |-> "AttributeError"]
    /\ last' = NoObs("quit_event", 0)
    /\ UNCHANGED <<level, in_transition, transition_timer, spawn_interval,
                   max_items, speed_multiplier, spawn_timer, items, boss,
                   missiles, player, next_scene>>

NextDriver == Tick \/ QuitIteration

InitDriver ==
    /\ Init
    /\ level = 1

SpecDriver == InitDriver /\ [][NextDriver]_vars

----------------------------------------------------------------------------

(* The session with its render calls                                        *)

\* active_scene.render(screen), which run_game calls after each update
RenderCall ==
    /\ run.active_scene = "scene"
    /\ next_scene = "self"
    /\ \E r \in {Render(Scene)} : Becomes(r.s, r.obs)

NextRender == Tick \/ RenderCall

SpecRender == InitDriver /\ [][NextRender]_vars

----------------------------------------------------------------------------

(* The player on its own: DonaNeide driven through its public methods *)

\* Frame times for the player alone: one that divides the timers and one
\* that overshoots them.
PlayerDTs == {500, 1500}

InitPlayer ==
    /\ Init
    /\ level = 1

\* player.update(keys, dt)
PlayerUpdateCall ==
    \E k \in KeyStates, dt \in PlayerDTs :
        /\ player' = PlayerUpdate(player, k, dt)
        /\ last' = NoObs("player_update", dt)
        /\ UNCHANGED <<sceneVars, boss>>

\* player.escorregar()
EscorregarCall ==
    /\ player' = Escorregar(player)
    /\ last' = NoObs("escorregar", 0)
    /\ UNCHANGED <<sceneVars, boss>>

\* player.boost_speed()
BoostSpeedCall ==
    /\ player' = BoostSpeed(player)
    /\ last' = [NoObs("boost_speed", 0) EXCEPT
                  !.boost_before = player.boost_timer]
    /\ UNCHANGED <<sceneVars, boss>>

NextPlayer == PlayerUpdateCall \/ EscorregarCall \/ BoostSpeedCall

SpecPlayer == InitPlayer /\ [][NextPlayer]_vars

----------------------------------------------------------------------------
(* The slip: the player alone, slipping and updated at short frame times    *)

\* Frame times: one that takes several updates to use up slip_duration and
\* one that uses it up in one update.
SlipDTs == {200, 500}

\* The key states: nothing held, or space and the right key held.
SlipKeys == {[space |-> FALSE, dx |-> 0], [space |-> TRUE, dx |-> 1]}

Min(a, b) == IF a <= b THEN a ELSE b

\* player.update(keys, dt), keeping count of the time since the last slip
SlipUpdateCall ==
    \E k \in SlipKeys, dt \in SlipDTs :
        /\ player' = PlayerUpdate(player, k, dt)
        /\ last' = [NoObs("player_update", dt) EXCEPT
                      !.keys = k,
                      !.since_slip = IF last.since_slip < 0 THEN -1
                                     ELSE Min(last.since_slip + dt,
                                              slip_duration)]
        /\ UNCHANGED <<sceneVars, boss>>

\* player.escorregar(), as the collision loop calls it
SlipCall ==
    /\ player' = Escorregar(player)
    /\ last' = [NoObs("escorregar", 0) EXCEPT !.since_slip = 0]
    /\ UNCHANGED <<sceneVars, boss>>

NextSlip == SlipUpdateCall \/ SlipCall

SpecSlip == InitPlayer /\ [][NextSlip]_vars

----------------------------------------------------------------------------

(* The player across level changes: the player's methods and the            *)
(* controller's start_level_transition called directly                      *)

MaxPersistLevel == 2  \* start_level_transition is not called beyond this level

\* scene.start_level_transition(level + 1), as the level advance calls it
StartLevelTransitionCall ==
    /\ level < MaxPersistLevel
    /\ level < max_level
    /\ Becomes(StartLevelTransition(Scene, level + 1),
               NoObs("start_level_transition", 0))

NextPersist ==
    PlayerUpdateCall \/ EscorregarCall \/ BoostSpeedCall
        \/ StartLevelTransitionCall

SpecPersist == InitPlayer /\ [][NextPersist]_vars

----------------------------------------------------------------------------

(* One second of the player at two frame times                              *)

\* n consecutive calls of player.update(keys, dt) with the same keys.
RECURSIVE PlayerUpdates(_, _, _, _)
PlayerUpdates(p, k, dt, n) ==
    IF n = 0 THEN p
    ELSE IF n = 1 THEN PlayerUpdate(p, k, dt)
    ELSE LET h == n \div 2
             q == PlayerUpdates(p, k, dt, h)     \* the first h calls
         IN  IF q.x >= 0 THEN PlayerUpdates(q, k, dt, n - h) ELSE q

\* Player states met during play, from which the second is run: at the
\* start column or near the left edge; not slipping, or 292 ms before the end
\* of a slip; with no boost, a fresh boost, or a boost with 248 ms left; with
\* the shield ready, just triggered, or cooling down.  (The timers that are
\* running are taken off the multiples of 10 ms, so that no timer reaches
\* zero exactly at an update of either frame time.)
SecondStarts ==
    {[NewPlayer EXCEPT !.x = x,
                       !.slip_timer = sl, !.can_move = (sl = 0),
                       !.boost_timer = b[1], !.boost_multiplier = b[2],
                       !.shield_active = sh[1], !.shield_timer = sh[2],
                       !.cooldown_timer = sh[3]] :
        x \in {368, 100}, sl \in {0, 292},
        b \in {<<0, 10>>, <<boost_duration, boost_value>>, <<248, boost_value>>},
        sh \in {<<FALSE, 0, 0>>, <<TRUE, 0, 0>>, <<FALSE, 1000, 2504>>}}

InitSecond ==
    \E p \in SecondStarts :
        Is([NewScene(1) EXCEPT !.player = p], NoObs("init", 0))

\* 10 calls of update with dt = 0.1
SecondCoarse ==
    /\ last.op = "init"
    /\ \E k \in KeyStates :
          /\ player' = PlayerUpdates(player, k, 100, 10)
          /\ last' = [NoObs("second_coarse", 100) EXCEPT !.keys = k]
    /\ UNCHANGED <<sceneVars, boss>>

\* 100 calls of update with dt = 0.01
SecondFine ==
    /\ last.op = "init"
    /\ \E k \in KeyStates :
          /\ player' = PlayerUpdates(player, k, 10, 100)
          /\ last' = [NoObs("second_fine", 10) EXCEPT !.keys = k]
    /\ UNCHANGED <<sceneVars, boss>>

NextSecond == SecondCoarse \/ SecondFine

SpecSecond == InitSecond /\ [][NextSecond]_vars

----------------------------------------------------------------------------

(* scenes/novogame_scene.py: the weighted choice of the kind of a spawned    *)
(* item.  A weight table is the dict current_item_weights in its insertion   *)
(* order: a sequence of [kind, weight].                                      *)

RECURSIVE SumWeights(_)
SumWeights(weights) ==          \* sum(weights.values())
    IF weights = << >> THEN 0
    ELSE weights[1].weight + SumWeights(Tail(weights))

\* the for loop of _weighted_item_selection from entry i on, current_weight
\* being the sum of the weights before i
RECURSIVE WalkWeights(_, _, _, _)
WalkWeights(weights, rand_value, i, current_weight) ==
    IF i > Len(weights) THEN weights[1].kind          \* list(weights.keys())[0]
    ELSE LET cw == current_weight + weights[i].weight
         IN  IF rand_value <= cw THEN weights[i].kind
             ELSE WalkWeights(weights, rand_value, i + 1, cw)

\* a draw taken from 0 .. total_weight - 1 and compared with <=
WeightedItemSelection_ZeroBasedDraw(weights, rand_value) ==
    IF SumWeights(weights) = 0 THEN "meia"
    ELSE WalkWeights(weights, rand_value - 1, 1, 0)

\* _weighted_item_selection, rand_value being the result of
\* random.randint(1, total_weight)
WeightedItemSelection(weights, rand_value) ==
    IF SumWeights(weights) = 0 THEN "meia"
    ELSE WalkWeights(weights, rand_value, 1, 0)

MaxKinds == 3          \* kinds in an enumerated weight table
MaxWeight == 2         \* largest weight in an enumerated weight table

WeightKinds == <<"meia", "cubo", "caneca", "banana">>   \* declaration order

Level1Weights == <<[kind |-> "meia", weight |-> 50], [kind |-> "cubo", weight |-> 25],
                   [kind |-> "caneca", weight |-> 25]>>

Level2Weights == <<[kind |-> "meia", weight |-> 40], [kind |-> "cubo", weight |-> 25],
                   [kind |-> "caneca", weight |-> 25], [kind |-> "banana", weight |-> 10]>>

\* every table of up to MaxKinds kinds with weights 0 .. MaxWeight, and the
\* tables of the first two levels
WeightTables ==
    {Level1Weights, Level2Weights} \cup
    UNION {{[i \in 1 .. n |-> [kind |-> WeightKinds[i], weight |-> w[i]]] :
                w \in [1 .. n -> 0 .. MaxWeight]} : n \in 0 .. MaxKinds}

InitSelect ==
    \E weights \in WeightTables :
        Is(NewScene(1), [op |-> "init", weights |-> weights, rand_value |-> 0,
                         item_type |-> "none"])

\* one call of _weighted_item_selection with the table of the scene
WeightedItemSelectionCall ==
    /\ \E rand_value \in (IF SumWeights(last.weights) = 0 THEN {0}
                          ELSE 1 .. SumWeights(last.weights)) :
          last' = [op |-> "select", weights |-> last.weights,
                   rand_value |-> rand_value,
                   item_type |-> WeightedItemSelection(last.weights, rand_value)]
    /\ UNCHANGED <<sceneVars, boss, player>>

NextSelect == WeightedItemSelectionCall

SpecSelect == InitSelect /\ [][NextSelect]_vars

----------------------------------------------------------------------------

(* The boss on its own: EntregadorTemporal driven through its methods *)

MaxHitCalls == 23     \* register_hit calls explored (beyond max_hits)

InitBoss ==
    /\ Init
    /\ level = BossLevel

\* boss.register_hit()
RegisterHitCall ==
    /\ boss[1].hits_taken < MaxHitCalls
    /\ boss' = <<RegisterHit(boss[1])>>
    /\ last' = NoObs("register_hit", 0)
    /\ UNCHANGED <<sceneVars, player>>

\* boss.update(dt), while the boss is not yet ready to fire
BossUpdateCall ==
    /\ ~ReadyToFire(boss[1])
    /\ \E dt \in DTs :
          /\ boss' = <<BossUpdate(boss[1], dt)>>
          /\ last' = NoObs("boss_update", dt)
    /\ UNCHANGED <<sceneVars, player>>

\* boss.fire_missile(), once ready_to_fire() holds; the projectile goes to
\* the pool as in update
FireMissileCall ==
    /\ ReadyToFire(boss[1])
    /\ boss' = <<FireMissileBoss(boss[1])>>
    /\ missiles' = << <<FireMissile(boss[1])>> >>
    /\ last' = NoObs("fire_missile", 0)
    /\ UNCHANGED <<level, in_transition, transition_timer, spawn_interval,
                   max_items, speed_multiplier, spawn_timer, items,
                   next_scene, run, player>>

NextBoss == RegisterHitCall \/ BossUpdateCall \/ FireMissileCall

SpecBoss == InitBoss /\ [][NextBoss]_vars

----------------------------------------------------------------------------
(* The patrol: the boss alone, updated at frame times that vary from one   *)
(* update to the next                                                      *)

PatrolDTs == {500, 1250}

MaxDrift == 400     \* no update is explored once the boss is further out

\* boss.update(dt) at a frame time of the patrol, while the boss is not yet
\* ready to fire
BossPatrolCall ==
    /\ ~ReadyToFire(boss[1])
    /\ boss[1].x >= -MaxDrift
    /\ boss[1].x + BossW <= WIDTH + MaxDrift
    /\ \E dt \in PatrolDTs :
          /\ boss' = <<BossUpdate(boss[1], dt)>>
          /\ last' = NoObs("boss_update", dt)
    /\ UNCHANGED <<sceneVars, player>>

NextPatrol == BossPatrolCall \/ FireMissileCall

SpecPatrol == InitBoss /\ [][NextPatrol]_vars

----------------------------------------------------------------------------

(* Properties *)

\* C1 (SpecPlayer): in no player update does the shield go from inactive to
\* active when cooldown_timer > 0 at the start of the update; a shield that
\* is active at the start of an update is not re-triggered (its timer
\* advances by dt and is never reset); and whenever shield_active goes from
\* true to false, cooldown_timer is exactly shield_cooldown afterwards.
C1_ShieldCooldown ==
    [][ /\ (~player.shield_active /\ player.cooldown_timer > 0)
            => ~player'.shield_active
        /\ (player.shield_active /\ last'.op = "player_update")
            => player'.shield_timer = player.shield_timer + last'.dt
        /\ (player.shield_active /\ ~player'.shield_active)
            => player'.cooldown_timer = shield_cooldown ]_vars

\* C1 witness: the shield was used and ran out, and its cooldown has been
\* counted down by at least one update since.
C1_Witness ==
    /\ last.op = "player_update"
    /\ ~player.shield_active
    /\ player.cooldown_timer > 0
    /\ player.cooldown_timer < shield_cooldown

\* C2 (SpecBoss): hits_taken never decreases, dead holds exactly when
\* hits_taken >= max_hits, and dead never goes back to false.
C2_BossDeath ==
    /\ [](boss[1].dead <=> boss[1].hits_taken >= max_hits)
    /\ [][ /\ boss'[1].hits_taken >= boss[1].hits_taken
           /\ boss[1].dead => boss'[1].dead ]_vars

\* C2 witness: register_hit was called on a boss that was already dead.
C2_Witness ==
    /\ last.op = "register_hit"
    /\ boss[1].dead
    /\ boss[1].hits_taken > max_hits

\* C10 (SpecBoss): missile_interval changes only in the register_hit call
\* that brings hits_taken to max_hits // 2, from 2.0 s to 1.0 s, and that
\* call does change it; so it is 2.0 s before the half-way hit and 1.0 s
\* from it on.
C10_FireIntervalRamp ==
    /\ [][ /\ boss'[1].missile_interval # boss[1].missile_interval
              => /\ last'.op = "register_hit"
                 /\ boss[1].hits_taken = max_hits \div 2 - 1
                 /\ boss'[1].hits_taken = max_hits \div 2
                 /\ boss[1].missile_interval = missile_interval_start
                 /\ boss'[1].missile_interval = missile_interval_fast
           /\ (boss[1].hits_taken < max_hits \div 2
                  /\ boss'[1].hits_taken >= max_hits \div 2)
              => boss'[1].missile_interval # boss[1].missile_interval ]_vars
    /\ [](boss[1].missile_interval =
             IF boss[1].hits_taken < max_hits \div 2
             THEN missile_interval_start ELSE missile_interval_fast)

\* C10 witness: the half-way hit has just been registered.
C10_Witness ==
    /\ last.op = "register_hit"
    /\ boss[1].hits_taken = max_hits \div 2
    /\ boss[1].missile_interval = missile_interval_fast


\* C3 (SpecSlow): the item pool never holds more than max_items items, and
\* the spawner adds an item only in a tick in which the pool, as it is at
\* the spawn test (after the items' update), holds fewer than max_items.
C3_PopulationCap ==
    /\ [](Len(items) <= max_items)
    /\ [][last'.spawned
             => Len(ItemsUpdate(items, last'.dt)) < max_items]_vars

\* C3 witness: a play tick in which the spawn timer had run out but the pool
\* was full, so nothing was spawned.
C3_Witness ==
    /\ last.op = "play"
    /\ ~last.spawned
    /\ Len(items) = max_items
    /\ spawn_timer >= spawn_interval

\* The life the collected items take when no shield absorbs them: the
\* sum of abs(valor) over the items with no effect tag and valor <= 0.
RECURSIVE DamageOf(_)
DamageOf(hits) ==
    IF hits = << >> THEN 0
    ELSE (IF Head(hits).efeito = "None" /\ Head(hits).valor <= 0
          THEN Abs(Head(hits).valor) ELSE 0) + DamageOf(Tail(hits))

\* C4 (SpecAnyItem): in every play tick the life is unchanged if the shield
\* is active at the collision step, and otherwise decreases by exactly
\* abs(valor) for each collected item with no effect tag and valor <= 0.
C4_ItemDamage ==
    [][ last'.op = "play"
          => player'.vida = player.vida
                 - (IF last'.shield THEN 0 ELSE DamageOf(last'.taken)) ]_vars

\* C4 witness: an item with no effect tag and a negative valor was collected
\* while the shield was active.
C4_Witness ==
    /\ last.op = "play"
    /\ last.shield
    /\ \E i \in 1..Len(last.taken) :
          last.taken[i].efeito = "None" /\ last.taken[i].valor < 0

\* C5 (Spec), the claim as stated: in a boss tick in which a projectile
\* overlaps the player at the collision step while the shield is not
\* active, the life goes down by exactly 1.
C5_UnblockedHitCostsLife ==
    [][ (last'.op = "boss" /\ last'.overlap > 0 /\ ~last'.shield)
          => player'.vida = player.vida - 1 ]_vars

\* C6 (Spec), the claim as stated: in a boss tick the boss's hits_taken
\* grows by the number of projectiles the shield consumed in that tick.
C6_EveryBlockRegistersHit ==
    [][ (last'.op = "boss" /\ last'.transitions = 0)
          => boss'[1].hits_taken = boss[1].hits_taken + last'.consumed ]_vars

C8_LevelAdvance ==
    [][ (last'.op = "play" /\ level < max_level /\ level # BossLevel)
          => IF player'.pontos >= points_to_next(level)
             THEN /\ level' = level + 1
                  /\ in_transition'
                  /\ transition_timer' = 0
                  /\ last'.transitions = 1
             ELSE /\ level' = level
                  /\ ~in_transition'
                  /\ last'.transitions = 0 ]_vars

\* C8 witness: a play tick of level 2 reached the threshold exactly and
\* ended in the transition to level 3.
C8_Witness ==
    /\ last.op = "play"
    /\ last.transitions = 1
    /\ level = 3
    /\ player.pontos = points_to_next(2)
    /\ in_transition

\* C9 (SpecBossFight): while the controller is in the boss level, a tick in which the
\* shield blocks a projectile and that hit is the max_hits-th ends with
\* level = 5, in_transition true, transition_timer = 0 and the boss dropped;
\* every other step leaves the level at 4 with a boss that is not dead.
C9_BossDefeat ==
    [][ (level = BossLevel /\ boss # << >>)
          => IF /\ last'.op = "boss"
                /\ last'.shield
                /\ last'.overlap > 0
                /\ boss[1].hits_taken + 1 >= max_hits
             THEN /\ level' = 5
                  /\ in_transition'
                  /\ transition_timer' = 0
                  /\ boss' = << >>
             ELSE /\ level' = BossLevel
                  /\ boss' # << >>
                  /\ ~boss'[1].dead ]_vars

\* C9 witness: the boss tick that registered the last hit has just run.
C9_Witness ==
    /\ last.op = "boss"
    /\ last.transitions = 1
    /\ level = 5
    /\ in_transition
    /\ transition_timer = 0

\* C11 (Spec): a tick that starts with in_transition true changes only
\* transition_timer (by dt) and possibly in_transition: the level, its
\* configuration, the spawn timer, the item pool, the boss, the projectile
\* pool, the hand-off and every field of the player are unchanged.
C11_TransitionFreeze ==
    [][ in_transition
          => /\ transition_timer' = transition_timer + last'.dt
             /\ UNCHANGED <<level, spawn_interval, max_items, speed_multiplier,
                            spawn_timer, items, boss, missiles, player,
                            next_scene>> ]_vars

\* C11 witness: a transition tick has run while the player's shield was
\* active, that is with a shield timer that an update would have advanced.
C11_Witness ==
    /\ last.op = "transition"
    /\ in_transition
    /\ transition_timer > 0
    /\ player.shield_active
    /\ player.shield_timer > 0

\* C12 (SpecEntry): a scene is constructed in transition with
\* transition_timer = 0; a transition tick adds dt to the timer and leaves
\* in_transition true exactly if the accumulated time is still below
\* transition_duration; once out of the transition the next tick is a boss
\* tick if the level is the boss level and a play tick otherwise; and, the
\* ticks arriving, every transition is eventually left.
C12_TransitionExit ==
    /\ [](last.op = "init" => (in_transition /\ transition_timer = 0))
    /\ [][ in_transition
             => /\ transition_timer' = transition_timer + last'.dt
                /\ in_transition'
                     <=> (transition_timer + last'.dt < transition_duration) ]_vars
    /\ [][ ~in_transition
             => last'.op = (IF level = BossLevel THEN "boss" ELSE "play") ]_vars
    /\ (in_transition ~> ~in_transition)

\* C12 witness: the first boss tick has run after a transition that ended
\* with the timer past transition_duration.
C12_Witness ==
    /\ last.op = "boss"
    /\ ~in_transition
    /\ transition_timer > transition_duration

\* C13 (SpecFinal), the claim as stated: in the last level, once the score
\* has reached the final threshold the controller has handed off (next_scene
\* is no longer the controller).
C13_VictoryHandOff ==
    (level = max_level /\ player.pontos >= FinalThreshold)
        => next_scene # "self"

\* The score the collected items give: the sum of valor over the items with
\* no effect tag and valor > 0.
RECURSIVE PointsOf(_)
PointsOf(hits) ==
    IF hits = << >> THEN 0
    ELSE (IF Head(hits).efeito = "None" /\ Head(hits).valor > 0
          THEN Head(hits).valor ELSE 0) + PointsOf(Tail(hits))

\* C14 (Spec): a play tick in which a slip item is collected ends with
\* slip_timer = slip_duration and can_move false, whether or not the shield
\* is active at the collision step, and the slip item itself changes neither
\* life nor score: they change only by what the other collected items give.
C14_SlipDispatch ==
    [][ (/\ last'.op = "play"
         /\ \E i \in 1..Len(last'.taken) :
                last'.taken[i].efeito = "escorregar")
          => /\ player'.slip_timer = slip_duration
             /\ ~player'.can_move
             /\ player'.vida = player.vida
                   - (IF last'.shield THEN 0 ELSE DamageOf(last'.taken))
             /\ player'.pontos = player.pontos + PointsOf(last'.taken) ]_vars

\* C14 witness: a slip item was collected while the shield was active, and
\* the slip timer has been started.
C14_Witness ==
    /\ last.op = "play"
    /\ last.shield
    /\ \E i \in 1..Len(last.taken) : last.taken[i].efeito = "escorregar"
    /\ player.slip_timer = slip_duration

\* C15 (SpecSlip): after a slip, every player update at whose end less than
\* slip_duration has accumulated since the slip ignores its keys: the
\* position is unchanged and the shield does not go from inactive to active.
C15_SlipLock ==
    [][ (/\ last'.op = "player_update"
         /\ last.since_slip >= 0
         /\ last.since_slip + last'.dt < slip_duration)
          => /\ player'.x = player.x
             /\ player'.y = player.y
             /\ player'.shield_active => player.shield_active ]_vars

\* C15 witness: the second update after a slip has run with space and a
\* direction key held, with the shield ready, and the lock is still on.
C15_Witness ==
    /\ last.op = "player_update"
    /\ last.since_slip = 400
    /\ last.keys = [space |-> TRUE, dx |-> 1]
    /\ player.cooldown_timer = 0
    /\ ~player.shield_active
    /\ player.slip_timer > 0

\* C16 (SpecPlayer): a call of boost_speed leaves boost_multiplier at the
\* boost value and boost_timer at the full duration, whatever boost was
\* running; and in every state boost_multiplier is the boost value if
\* boost_timer > 0 and 1.0 otherwise.
C16_BoostRefresh ==
    /\ [][ last'.op = "boost_speed"
             => /\ player'.boost_multiplier = boost_value
                /\ player'.boost_timer = boost_duration ]_vars
    /\ [](player.boost_multiplier
            = (IF player.boost_timer > 0 THEN boost_value ELSE 10))

\* C16 witness: boost_speed was called while an earlier boost had part of
\* its time left, and the timer is back at the full duration.
C16_Witness ==
    /\ last.op = "boost_speed"
    /\ last.boost_before > 0
    /\ last.boost_before < boost_duration
    /\ player.boost_timer = boost_duration
    /\ player.boost_multiplier = boost_value

\* C17 (SpecEntry): a scene whose load_level was given a level with no row
\* in level_configs holds the default row (spawn_interval 2.5 s, max_items 5,
\* speed_multiplier 1.0) and no boss or projectile pool, starts with the
\* spawn timer at 0 and an empty item pool, and is usable: once out of its
\* transition its tick is a play tick that leaves the level and the default
\* row in place.
C17_ConfigurationGap ==
    /\ [](level \notin 1..max_level
            => /\ spawn_interval = 2500
               /\ max_items = 5
               /\ speed_multiplier = 10
               /\ boss = << >>
               /\ missiles = << >>
               /\ next_scene = "self")
    /\ []((level \notin 1..max_level /\ last.op = "init")
            => (spawn_timer = 0 /\ items = << >>))
    /\ [][ (level \notin 1..max_level /\ ~in_transition)
             => (last'.op = "play" /\ level' = level) ]_vars

\* C17 witness: a scene constructed above the last configured level has
\* left its transition and run a play tick on the default row.
C17_Witness ==
    /\ level = max_level + 1
    /\ last.op = "play"
    /\ spawn_interval = 2500
    /\ spawn_timer = last.dt
    /\ spawn_timer > 0

\* C18 (SpecPersist): start_level_transition changes nothing of the player
\* but its position, which becomes the re-entry point (midbottom at
\* (WIDTH // 2, HEIGHT - 10), that is the top-left corner at (368, 526)):
\* life, score, shield_active, shield_timer, cooldown_timer, slip_timer,
\* can_move, boost_timer and boost_multiplier are as before the call.
C18_PlayerPersists ==
    [][ last'.op = "start_level_transition"
          => player' = [player EXCEPT !.x = 368, !.y = 526] ]_vars

\* C18 witness: a level transition has just been started for a player with
\* an active shield, a running slip and a running boost, all of them kept.
C18_Witness ==
    /\ last.op = "start_level_transition"
    /\ level = 2
    /\ player.x = 368
    /\ player.y = 526
    /\ player.shield_active
    /\ player.slip_timer > 0
    /\ player.boost_timer > 0
    /\ player.boost_multiplier = boost_value

\* C19 (SpecDriver), the claim as stated: once a QUIT event has made the
\* active scene None, run_game has ended normally: nothing was called on the
\* None scene, no exception was raised and pygame.quit() was reached.
C19_QuitEndsNormally ==
    run.active_scene = "None" => run.status = "quit"

\* C20 (SpecRender): a render call, in the transition branch and in the
\* gameplay branch alike, leaves the level, in_transition, transition_timer,
\* the level's configuration, the spawn timer, the item pool, the boss, the
\* projectile pool, the hand-off and every field of the player unchanged.
C20_RenderReadOnly ==
    [][ last'.op = "render"
          => UNCHANGED <<level, in_transition, transition_timer,
                         spawn_interval, max_items, speed_multiplier,
                         spawn_timer, items, boss, missiles, player,
                         next_scene>> ]_vars

\* C20 witness: a render call has drawn the gameplay branch, with items in
\* the pool and a HUD showing a score and three hearts.
C20_Witness ==
    /\ last.op = "render"
    /\ ~in_transition
    /\ items # << >>
    /\ last.screen # << >>
    /\ last.screen[1].hearts = 3
    /\ last.screen[1].pontos > 0

\* C21 (SpecBossFight), the claim as stated: the boss tick in which the boss
\* dies (the one that starts the transition out of the boss level) ends with
\* a score strictly greater than the score it started with.
C21_BossDeathBonus ==
    [][ (last'.op = "boss" /\ last'.transitions = 1)
          => player'.pontos > player.pontos ]_vars

\* C22 (SpecSecond), the claim as stated: from any player state and with any
\* keys held, the horizontal position after 10 updates with dt = 0.1 and the
\* one after 100 updates with dt = 0.01 differ by at most one pixel (the
\* rounding of the integer position).
C22_FrameRateIndependence ==
    [][ last'.op = "second_coarse"
          => Abs(player'.x - PlayerUpdates(player, last'.keys, 10, 100).x)
                <= 1 ]_vars

\* C23 (SpecSelect): a call of _weighted_item_selection on a table of total
\* weight T > 0 with the draw r in 1 .. T returns the kind of the first entry
\* whose cumulative weight is >= r, and that entry has a weight > 0; on a
\* table of total weight 0 it returns "meia".
C23_WeightedSelection ==
    last.op = "select" =>
        LET w == last.weights
            Cum(i) == SumWeights(SubSeq(w, 1, i))
        IN  IF SumWeights(w) > 0
            THEN \E i \in 1 .. Len(w) :
                    /\ last.item_type = w[i].kind
                    /\ Cum(i) >= last.rand_value
                    /\ \A j \in 1 .. (i - 1) : Cum(j) < last.rand_value
                    /\ w[i].weight > 0
            ELSE last.item_type = "meia"

\* C23 witness: a call has returned the third kind of a table whose first
\* kind has weight 0 and whose second kind's weight was just below the draw.
C23_Witness ==
    /\ last.op = "select"
    /\ Len(last.weights) = 3
    /\ last.weights[1].weight = 0
    /\ last.weights[2].weight > 0
    /\ last.rand_value = last.weights[2].weight + 1
    /\ last.item_type = "caneca"

\* C24 (SpecBossFight), the claim as stated: every projectile that overlaps
\* the player at the collision step of a boss tick is removed in that tick,
\* with the shield up or down: none of the projectiles left in the pool
\* overlaps the player the tick ended with.
C24_ProjectileRemovedOnOverlap ==
    [][ last'.op = "boss"
          => /\ last'.consumed = last'.overlap
             /\ \A i \in 1 .. Len(MissilePool') :
                    ~MissileHitsPlayer(player', MissilePool'[i]) ]_vars

\* The items a tick of frame time dt leaves in the pool when an item leaves
\* only by being collected (taken) or by its top edge passing the bottom.
ItemsKept(dt, taken) ==
    LET moved == [i \in 1 .. Len(items) |-> ItemMove(items[i], dt)]
        Stays(m) == /\ ~ItemOffScreen(m)
                    /\ \A i \in 1 .. Len(taken) : taken[i] # m
    IN  SelectSeq(moved, Stays)

\* The pool after a tick holds the items kept, followed by the item of the
\* spawner if it emitted one in this tick and that item was not collected
\* at once (every item taken was in the pool before).
ItemLifecycleStep ==
    LET kept  == ItemsKept(last'.dt, last'.taken)
        Old(m) == \E i \in 1 .. Len(items) : ItemMove(items[i], last'.dt) = m
    IN  IF last'.spawned /\ \A i \in 1 .. Len(last'.taken) : Old(last'.taken[i])
        THEN /\ Len(items') = Len(kept) + 1
             /\ SubSeq(items', 1, Len(kept)) = kept
        ELSE items' = kept

\* C25, the claim as stated (Spec): in every tick of the controller an item
\* enters the pool only through the spawner and leaves it only by colliding
\* with the player or by its top edge passing the bottom of the screen.
C25_ItemLifecycleAsStated ==
    [][ last'.op \in {"play", "boss", "transition"}
          => IF last'.op = "transition" THEN items' = items
             ELSE ItemLifecycleStep ]_vars

\* C25 (Spec), amended: as stated in every tick that does not start a level
\* transition; the tick that starts one ends with the pool emptied by
\* load_level, whatever was in it.
C25_ItemLifecycle ==
    [][ last'.op \in {"play", "boss", "transition"}
          => IF last'.op = "transition" THEN items' = items
             ELSE IF last'.transitions = 1 THEN items' = << >>
             ELSE ItemLifecycleStep ]_vars

\* C25 witness: a play tick has started a level transition and load_level
\* has emptied a pool that still held an item (the one the spawner had
\* emitted in that tick).
C25_Witness ==
    /\ last.op = "play"
    /\ last.transitions = 1
    /\ last.emptied > 0
    /\ items = << >>

\* C26 (SpecSpawn): in a play tick of frame time dt, with t = spawn_timer + dt
\* and the pool as it is after the items' update, the spawner emits exactly
\* when t >= spawn_interval and the pool holds fewer than max_items; if it
\* emits, the pool gains exactly one item and the timer ends at 0, however
\* large dt is; otherwise the pool gains nothing and the timer ends at t.
\* (Pool and timer are compared in the ticks that do not change the level.)
C26_SpawnerTiming ==
    [][ last'.op = "play"
          => LET t    == spawn_timer + last'.dt
                 pool == ItemsUpdate(items, last'.dt)
             IN  /\ last'.spawned
                      <=> (t >= spawn_interval /\ Len(pool) < max_items)
                 /\ last'.transitions = 0
                      => IF last'.spawned
                         THEN /\ Len(items') + Len(last'.taken) = Len(pool) + 1
                              /\ spawn_timer' = 0
                         ELSE /\ Len(items') + Len(last'.taken) = Len(pool)
                              /\ spawn_timer' = t ]_vars

\* C26 witness: a play tick whose frame time was longer than two spawn
\* intervals has emitted, and the pool holds one item and the timer is 0.
C26_Witness ==
    /\ last.op = "play"
    /\ last.spawned
    /\ last.dt >= 2 * spawn_interval
    /\ Len(items) = 1
    /\ spawn_timer = 0

\* C27 (SpecBossFight): while the controller is in the boss level with a
\* boss that is not dead, the item pool is empty and the spawn timer is at
\* the 0 load_level gave it; a boss tick spawns nothing and leaves the spawn
\* timer as it was.
C27_SpawnerOffInBossFight ==
    /\ []((level = BossLevel /\ boss # << >> /\ ~boss[1].dead)
             => (items = << >> /\ spawn_timer = 0))
    /\ [][ last'.op = "boss"
             => (~last'.spawned /\ spawn_timer' = spawn_timer) ]_vars

\* C27 witness: the boss fight has lasted longer than the spawn interval of
\* the level (the boss has fired and a shield has blocked a projectile), and
\* the pool is empty and the spawn timer 0.
C27_Witness ==
    /\ level = BossLevel
    /\ last.op = "boss"
    /\ boss # << >>
    /\ boss[1].hits_taken >= 2
    /\ ~boss[1].dead
    /\ items = << >>
    /\ spawn_timer = 0

\* C28 (SpecBossFight): in a boss tick that does not end the fight, with b the
\* boss after its update and ms the pool after the projectiles' update
\* (towards the player as updated in this tick): the controller fires
\* exactly when b.missile_timer >= b.missile_interval; if it fires, the
\* boss's missile_timer ends at 0 and the pool is ms plus exactly one
\* projectile, placed at the updated boss's (centerx, bottom) and not moved
\* in this tick, less what the collision step consumed; if it does not
\* fire, the timer is the advanced one and the pool is ms less what the
\* collision step consumed.
C28_FireProtocol ==
    [][ (last'.op = "boss" /\ last'.transitions = 0)
          => LET b  == BossUpdate(boss[1], last'.dt)
                 ms == MissilesUpdate(MissilePool, player', last'.dt)
                 n  == Len(MissilePool')
             IN  IF ReadyToFire(b)
                 THEN /\ boss'[1].missile_timer = 0
                      /\ n + last'.consumed = Len(ms) + 1
                      /\ n > 0
                      /\ MissilePool'[n] = FireMissile(b)
                 ELSE /\ boss'[1].missile_timer = boss[1].missile_timer + last'.dt
                      /\ n + last'.consumed = Len(ms) ]_vars

\* C28 witness: a boss tick has fired into a pool that already held
\* projectiles: the timer is 0 and the last projectile of the pool is the
\* one at the boss's position.
C28_Witness ==
    /\ last.op = "boss"
    /\ last.transitions = 0
    /\ boss # << >>
    /\ boss[1].missile_timer = 0
    /\ Len(MissilePool) >= 3
    /\ MissilePool[Len(MissilePool)] = FireMissile(boss[1])

\* C29 (SpecPatrol): a boss update of frame time dt moves the rect by
\* direction * speed * dt (to the integer the Rect keeps); it inverts
\* direction exactly when, after the move, the right edge is beyond the
\* right boundary or the left edge beyond the left one; the position is
\* the moved one even when it is beyond a boundary; direction is 1 or -1.
C29_PatrolReflection ==
    [][ last'.op = "boss_update"
          => LET b  == boss[1]
                 nx == TruncDiv(b.x * 1000 + b.direction * boss_speed * last'.dt,
                                1000)
             IN  /\ boss'[1].x = nx
                 /\ boss'[1].direction \in {1, -1}
                 /\ (boss'[1].direction = -b.direction)
                      <=> (nx + BossW > WIDTH \/ nx < 0) ]_vars

\* C29 witness: an update has carried the boss beyond the right boundary;
\* it was left there and now heads left.
C29_Witness ==
    /\ last.op = "boss_update"
    /\ boss[1].x + BossW > WIDTH
    /\ boss[1].direction = -1

\* C30 (SpecPatrol), the claim as stated: an update of a boss whose box is
\* beyond the right boundary does not move it further right, and one of a
\* boss whose box is beyond the left boundary does not move it further left.
C30_NoStepAwayWhileOutside ==
    [][ last'.op = "boss_update"
          => /\ boss[1].x + BossW > WIDTH => boss'[1].x <= boss[1].x
             /\ boss[1].x < 0 => boss'[1].x >= boss[1].x ]_vars

\* C31 (SpecCampaign): a tick starts at most one level transition; the tick
\* that starts one ends in exactly the state start_level_transition leaves
\* (next level, its configuration loaded, in_transition true with
\* transition_timer 0, spawn timer 0, empty item pool, boss and projectile
\* pool as the new level has them, player at the re-entry point), so nothing
\* has run after it; and the tick after it is a transition tick.
C31_TransitionEndsTick ==
    /\ [][ last'.op \in {"play", "boss"}
             => /\ last'.transitions \in {0, 1}
                /\ last'.transitions = 1
                     => /\ level' = IF last'.op = "boss" THEN AfterBossLevel
                                                         ELSE level + 1
                        /\ in_transition'
                        /\ transition_timer' = 0
                        /\ spawn_interval' = level_configs(level').spawn_interval
                        /\ max_items' = level_configs(level').max_items
                        /\ speed_multiplier' = level_configs(level').speed_multiplier
                        /\ spawn_timer' = 0
                        /\ items' = << >>
                        /\ boss' = IF level' = BossLevel THEN <<NewBoss>> ELSE << >>
                        /\ missiles' = IF level' = BossLevel THEN << << >> >>
                                                              ELSE << >>
                        /\ player'.x = WIDTH \div 2 - PlayerW \div 2
                        /\ player'.y = (HEIGHT - 10) - PlayerH ]_vars
    /\ [][ in_transition => last'.op = "transition" ]_vars

\* C31 witness: a play tick in which the spawner emitted and the player
\* collected an item has started the transition to the boss level, and the
\* pool is empty, the spawn timer 0 and the fresh boss in place.
C31_Witness ==
    /\ last.op = "play"
    /\ last.transitions = 1
    /\ last.spawned
    /\ last.taken # << >>
    /\ level = BossLevel
    /\ boss = <<NewBoss>>
    /\ items = << >>
    /\ spawn_timer = 0

\* C32 (SpecPlayer), the claim as stated: after every update of the player
\* the cooldown timer, the slip timer and the boost timer are all >= 0.
C32_TimersNonNegative ==
    last.op = "player_update"
        => /\ player.cooldown_timer >= 0
           /\ player.slip_timer >= 0
           /\ player.boost_timer >= 0

\* C33 (SpecAnyItem): in a play tick the items taken are exactly the items
\* of the pool that overlap the player at the collision step; they are gone
\* from the pool after the tick, no item left in the pool overlaps the
\* player (so none can be applied again in a later tick), and every item
\* that did not overlap is still there.  Each item taken is applied through
\* one branch, once: the score grows by the valor of the taken items with
\* no effect tag and valor > 0, the life falls (shield down) by abs(valor)
\* of those with no effect tag and valor <= 0, the slip starts exactly if a
\* slip item was taken and the boost exactly if a boost item was taken.
\* (Positions are compared in the ticks that do not change the level, which
\* move the player and empty the pool.)
C33_CollisionConsumption ==
    [][ last'.op = "play"
          => LET taken == last'.taken
                 pool  == ItemsUpdate(items, last'.dt)
                 Has(seq, m) == \E i \in 1 .. Len(seq) : seq[i] = m
                 Took(e) == \E i \in 1 .. Len(taken) : taken[i].efeito = e
             IN  /\ last'.transitions = 0
                      => /\ \A j \in 1 .. Len(items') :
                                ~ItemHitsPlayer(player', items'[j])
                         /\ \A i \in 1 .. Len(taken) :
                                ItemHitsPlayer(player', taken[i])
                         /\ \A i \in 1 .. Len(pool) :
                                IF ItemHitsPlayer(player', pool[i])
                                THEN Has(taken, pool[i]) /\ ~Has(items', pool[i])
                                ELSE Has(items', pool[i]) /\ ~Has(taken, pool[i])
                         /\ Len(items') + Len(taken)
                               = Len(pool) + (IF last'.spawned THEN 1 ELSE 0)
                 /\ player'.pontos = player.pontos + PointsOf(taken)
                 /\ player'.vida = player.vida
                       - (IF last'.shield THEN 0 ELSE DamageOf(taken))
                 /\ IF Took("escorregar")
                    THEN player'.slip_timer = slip_duration /\ ~player'.can_move
                    ELSE player'.slip_timer <= player.slip_timer
                 /\ IF Took("boost")
                    THEN /\ player'.boost_timer = boost_duration
                         /\ player'.boost_multiplier = boost_value
                    ELSE player'.boost_timer <= player.boost_timer ]_vars

\* C33 witness: a play tick has taken an item while another item, which did
\* not overlap the player, stayed in the pool.
C33_Witness ==
    /\ last.op = "play"
    /\ last.transitions = 0
    /\ last.taken # << >>
    /\ items # << >>
    /\ \A j \in 1 .. Len(items) : ~ItemHitsPlayer(player, items[j])

C35_ShieldIndicator ==
    (/\ last.op = "render"
     /\ ~in_transition
     /\ last.screen[1].shield_available)
        => /\ ~player.shield_active
           /\ player.can_move
           /\ \A dt \in DTs :
                 PlayerUpdate(player, [space |-> TRUE, dx |-> 0], dt).shield_active

\* C36 (SpecPersist): after the construction, after every update of the
\* player (any keys, slipping or not, boosted or not) and after every
\* start_level_transition, the player's left edge is >= 0 and its right edge
\* <= 800.
C36_PlayerOnScreen ==
    /\ player.x >= 0
    /\ player.x + PlayerW <= WIDTH

\* C36 witness: an update with the right key held and a running boost has
\* ended with the player's right edge on the right limit.
C36_Witness ==
    /\ last.op = "player_update"
    /\ player.boost_timer > 0
    /\ player.boost_multiplier = boost_value
    /\ player.x + PlayerW = WIDTH

\* C37 (SpecLevels): the level of a scene constructed at a level in
\* 1 .. max_level stays in 1 .. max_level; a step either leaves it as it is
\* or, in a tick that starts a transition, raises it by exactly 1; and no
\* tick begun at max_level starts a transition.
C37_LevelProgression ==
    /\ [](level \in 1 .. max_level)
    /\ [][ IF last'.transitions = 1 THEN level' = level + 1
                                    ELSE level' = level ]_vars
    /\ [][ level = max_level => last'.transitions = 0 ]_vars

\* C37 witness: the last level has been reached by play, and an item
\* collected there, with the score beyond every threshold, has started no
\* transition.
C37_Witness ==
    /\ level = max_level
    /\ last.op = "play"
    /\ last.taken # << >>
    /\ last.transitions = 0
    /\ player.pontos > points_to_next(max_level - 1)

\* C38 (SpecLevels): in every state between two ticks the controller holds
\* a boss exactly if the level is the boss level, and a projectile pool
\* exactly if the level is the boss level; and a boss it holds is not dead.
C38_BossOwnership ==
    /\ (boss # << >>) <=> (level = BossLevel)
    /\ (missiles # << >>) <=> (level = BossLevel)
    /\ boss # << >> => ~boss[1].dead

\* C38 witness: the tick in which the shield blocked the last projectile
\* the boss could take has ended in the next level with neither boss nor
\* projectile pool.
C38_Witness ==
    /\ last.op = "boss"
    /\ last.consumed >= 1
    /\ last.transitions = 1
    /\ level = AfterBossLevel
    /\ boss = << >>
    /\ missiles = << >>

\* C39 (SpecCarried), the claim as stated: when the first play tick of a
\* level L before the boss level begins (the tick before was the last of the
\* opening transition), the score is below points_to_next[L]; and a play
\* tick that starts the transition out of its level has collected an item.
C39_NoLevelWithoutPlay ==
    /\ []((/\ last.op = "transition"
           /\ ~in_transition
           /\ level < BossLevel)
              => player.pontos < points_to_next(level))
    /\ [][ (last'.op = "play" /\ last'.transitions = 1)
             => last'.taken # << >> ]_vars

====
